---- MODULE Spec2Model ----
(***************************************************************************)
(* Adafruit_SSD1331: the geometry / protocol layer of the SSD1331 OLED     *)
(* driver.  Every public call is one action; the bytes the call hands to   *)
(* spiWrite / sendCommand are recorded in last.trace as a sequence of       *)
(* commands [cmd, args]: the opcode by its SSD1331_CMD_ name and the       *)
(* operand bytes that follow it, each as the uint8_t that reaches the      *)
(* wire.  Every delayMicroseconds argument is recorded in last.delay.      *)
(*                                                                         *)
(* int16_t values wrap modulo 2^16 (Int16), spiWrite operands modulo 2^8   *)
(* (Byte); int is taken to be wider than 16 bits.                          *)
(***************************************************************************)
EXTENDS Integers, Sequences, FiniteSets

VARIABLES
    rotation,   \* Adafruit_GFX::rotation, 0..3
    _width,     \* logical width
    _height,    \* logical height
    lastRot,    \* r & 0x03 of the latest setRotation(r); 0 before the first
    last        \* the latest call: its name, its arguments, the commands it
                \* emitted and the delays it waited

vars == <<rotation, _width, _height, lastRot, last>>

(* ---------------------------------------------------------------------- *)
(* Program constants                                                       *)
(* ---------------------------------------------------------------------- *)
TFTWIDTH == 96
TFTHEIGHT == 64
SETREMAP_COLOR_BITS == 100
SETREMAP_ROTATION_0_BITS == 18
SETREMAP_ROTATION_1_BITS == 3
SETREMAP_ROTATION_2_BITS == 0
SETREMAP_ROTATION_3_BITS == 17

(* ---------------------------------------------------------------------- *)
(* Bounds of the model                                                     *)
(* ---------------------------------------------------------------------- *)
Margin == 1
MaxRotArg == 4

\* the range of int16_t
MinInt16 == -(2^15)
MaxInt16 == 2^15 - 1

Near(c) == (c - Margin)..(c + Margin)

\* x-axis inputs: around 0 and around both panel dimensions
EdgeXS == Near(0) \cup Near(TFTHEIGHT) \cup Near(TFTWIDTH)
\* ... and the int16 extremes
XS == EdgeXS \cup {MinInt16, MaxInt16}
\* y-axis inputs
YS == {MinInt16, -1, 0, 1, 63, 64, 95, 96}
HS == {MinInt16, -1, 0, 1, 2, 64, 65, 96, 97, MaxInt16}
Colors == {0, 4660}

(* ---------------------------------------------------------------------- *)
(* Integer widths                                                          *)
(* ---------------------------------------------------------------------- *)
Int16(v) == ((v - MinInt16) % 2^16) + MinInt16
Byte(v) == v % 2^8

Min(a, b) == IF a < b THEN a ELSE b
Max(a, b) == IF a > b THEN a ELSE b

(* ---------------------------------------------------------------------- *)
(* Command encoder                                                         *)
(* ---------------------------------------------------------------------- *)
spiWriteXY_NoSwap(x, y) == <<Byte(x), Byte(y)>>

spiWriteXY(x, y) ==
    IF rotation % 2 = 1 THEN <<Byte(y), Byte(x)>> ELSE <<Byte(x), Byte(y)>>

spiWriteColor(color) ==
    LET c == Int16(color)
        red == (c \div 1024) % 64
    IN << red - (red % 2), (c \div 32) % 64, (2 * c) % 64 >>

Cmd(op, args) == [cmd |-> op, args |-> args]

Nothing == [trace |-> <<>>, delay |-> <<>>]

(* ---------------------------------------------------------------------- *)
(* writeLine                                                               *)
(* ---------------------------------------------------------------------- *)
LineRejected_FirstOnly(x0, y0, x1, y1) ==
    x0 < 0 \/ x0 >= _width \/ y0 < 0 \/ y0 >= _height

LineRejected(x0, y0, x1, y1) ==
    \/ x0 < 0 \/ x0 >= _width
    \/ x1 < 0 \/ x1 >= _width
    \/ y0 < 0 \/ y0 >= _height
    \/ y1 < 0 \/ y1 >= _height

writeLine(x0, y0, x1, y1, color) ==
    IF LineRejected(x0, y0, x1, y1)
    THEN <<>>
    ELSE << Cmd("DRAWLINE", spiWriteXY(x0, y0) \o spiWriteXY(x1, y1)
                               \o spiWriteColor(color)) >>

(* ---------------------------------------------------------------------- *)
(* writeFillRect                                                           *)
(* ---------------------------------------------------------------------- *)
\* the rectangle after lines 255-270: [x, x1) x [y, y1), x1 and y1 exclusive
FillClip_NoLow(x, y, w, h) ==
    LET x1 == Int16(x + w)
        y1 == Int16(y + h)
    IN [x  |-> x,
        x1 |-> IF x1 > _width THEN _width ELSE x1,
        y  |-> y,
        y1 |-> IF y1 > _height THEN _height ELSE y1]

FillClip(x, y, w, h) ==
    LET x1 == Int16(x + w)
        y1 == Int16(y + h)
    IN [x  |-> IF x < 0 THEN 0 ELSE x,
        x1 |-> IF x1 > _width THEN _width ELSE x1,
        y  |-> IF y < 0 THEN 0 ELSE y,
        y1 |-> IF y1 > _height THEN _height ELSE y1]

FillOffScreen(x, y, w, h) ==
    Int16(x + w) < 0 \/ x >= _width \/ Int16(y + h) < 0 \/ y >= _height

FillEmpty(r) == r.x1 - 1 < r.x \/ r.y1 - 1 < r.y

FillUsesClear_Never(color) == FALSE

FillUsesClear(color) == color = 0

FillUsesLine(r) == r.x = r.x1 \/ r.y = r.y1

FillDelay(w, h) == (w * h) \div 4

writeFillRect(x, y, w, h, color) ==
    IF FillOffScreen(x, y, w, h)
    THEN Nothing
    ELSE LET r == FillClip(x, y, w, h)
         IN IF FillEmpty(r)
            THEN Nothing
            ELSE [trace |->
                    IF FillUsesClear(color)
                    THEN << Cmd("CLEAR", spiWriteXY(r.x, r.y)
                                     \o spiWriteXY(r.x1 - 1, r.y1 - 1)) >>
                    ELSE IF FillUsesLine(r)
                    THEN writeLine(r.x, r.y, r.x1, r.y1, color)
                    ELSE << Cmd("FILL", <<1>>),
                            Cmd("DRAWRECT",
                                spiWriteXY(r.x, r.y)
                                  \o spiWriteXY(r.x1 - 1, r.y1 - 1)
                                  \o spiWriteColor(color)
                                  \o spiWriteColor(color)) >>,
                  delay |-> <<FillDelay(w, h)>>]

(* ---------------------------------------------------------------------- *)
(* writeFastHLine / writeFastVLine                                         *)
(* ---------------------------------------------------------------------- *)
writeFastVLine(x, y, h, color) == writeLine(x, y, x, Int16(y + h), color)

writeFastHLine(x, y, w, color) == writeLine(x, y, Int16(x + w), y, color)

(* ---------------------------------------------------------------------- *)
(* drawRect                                                                *)
(* ---------------------------------------------------------------------- *)
RectRejected(x, y, w, h) ==
    \/ x < 0 \/ x >= _width
    \/ y < 0 \/ y >= _height
    \/ w <= 0 \/ h <= 0

\* the far corner after lines 459-465, exclusive
RectFar(x, y, w, h) ==
    LET x1 == Int16(x + w)
        y1 == Int16(y + h)
    IN [x1 |-> IF x1 > _width THEN _width ELSE x1,
        y1 |-> IF y1 >= _height THEN _height ELSE y1]

drawRectTrace(x, y, w, h, color) ==
    IF RectRejected(x, y, w, h)
    THEN <<>>
    ELSE LET f == RectFar(x, y, w, h)
         IN << Cmd("FILL", <<0>>),
               Cmd("DRAWRECT",
                   spiWriteXY(x, y)
                     \o spiWriteXY(f.x1 - 1, f.y1 - 1)
                     \o spiWriteColor(color) \o spiWriteColor(color)) >>

(* ---------------------------------------------------------------------- *)
(* copyBits (SSD1331_EXTRAS)                                               *)
(* ---------------------------------------------------------------------- *)
\* one axis of the clip: source origin p, destination origin d, extent len,
\* screen limit lim; p, d and len are int16_t, min_x / max_x / clip are int
CopyClipAxis(p, d, len, lim) ==
    LET lo    == Min(p, d)
        hi    == Max(p, d) + len
        clip1 == -lo
        p1    == IF clip1 > 0 THEN Int16(p + clip1) ELSE p
        d1    == IF clip1 > 0 THEN Int16(d + clip1) ELSE d
        len1  == IF clip1 > 0 THEN Int16(len - clip1) ELSE len
        clip2 == hi - lim
        len2  == IF clip2 > 0 THEN Int16(len1 - clip2) ELSE len1
    IN [p |-> p1, d |-> d1, len |-> len2]

copyBitsResult(x, y, w, h, dx, dy, invert) ==
    LET cx == CopyClipAxis(x, dx, w, _width)
        cy == CopyClipAxis(y, dy, h, _height)
    IN IF cx.len <= 0
       THEN Nothing
       ELSE IF cy.len <= 0
       THEN Nothing
       ELSE [trace |-> << Cmd("FILL", <<IF invert THEN 16 ELSE 0>>),
                          Cmd("COPY",
                              spiWriteXY(cx.p, cy.p)
                                \o spiWriteXY(cx.p + cx.len - 1,
                                              cy.p + cy.len - 1)
                                \o spiWriteXY(cx.d, cy.d)) >>,
             delay |-> <<(cx.len * cy.len) \div 4>>]

(* ---------------------------------------------------------------------- *)
(* begin / setRotation / display mode                                      *)
(* ---------------------------------------------------------------------- *)
RECURSIVE BitOr(_, _)
BitOr(a, b) ==
    IF a = 0 THEN b
    ELSE IF b = 0 THEN a
    ELSE (IF a % 2 = 1 \/ b % 2 = 1 THEN 1 ELSE 0)
           + 2 * BitOr(a \div 2, b \div 2)

\* sendCommand(opcode) followed by sendCommand(operand)
beginTrace ==
    << Cmd("DISPLAYOFF", <<>>),
       Cmd("SETREMAP", <<BitOr(SETREMAP_COLOR_BITS, SETREMAP_ROTATION_0_BITS)>>),
       Cmd("STARTLINE", <<0>>),
       Cmd("DISPLAYOFFSET", <<0>>),
       Cmd("NORMALDISPLAY", <<>>),
       Cmd("SETMULTIPLEX", <<63>>),
       Cmd("SETMASTER", <<142>>),
       Cmd("POWERMODE", <<11>>),
       Cmd("PRECHARGE", <<49>>),
       Cmd("CLOCKDIV", <<240>>),
       Cmd("PRECHARGEA", <<100>>),
       Cmd("PRECHARGEB", <<120>>),
       Cmd("PRECHARGEC", <<100>>),
       Cmd("PRECHARGELEVEL", <<58>>),
       Cmd("VCOMH", <<62>>),
       Cmd("MASTERCURRENT", <<6>>),
       Cmd("CONTRASTA", <<145>>),
       Cmd("CONTRASTB", <<80>>),
       Cmd("CONTRASTC", <<125>>),
       Cmd("DISPLAYON", <<>>) >>

RotationBits(r) ==
    CASE r = 0 -> SETREMAP_ROTATION_0_BITS
      [] r = 1 -> SETREMAP_ROTATION_1_BITS
      [] r = 2 -> SETREMAP_ROTATION_2_BITS
      [] r = 3 -> SETREMAP_ROTATION_3_BITS

setRotationTrace(r) ==
    << Cmd("SETREMAP", <<BitOr(SETREMAP_COLOR_BITS, RotationBits(r))>>) >>

(* ---------------------------------------------------------------------- *)
(* Inputs                                                                  *)
(* ---------------------------------------------------------------------- *)
FillArgs ==
    [x : XS, y : YS, w : XS, h : HS, color : Colors]
      \cup {[x |-> 0, y |-> 0, w |-> 50, h |-> 1, color |-> 4660],
            [x |-> 10, y |-> 10, w |-> 20, h |-> 20, color |-> 0]}

RectArgs == [x : XS, y : YS, w : XS, h : HS, color : {4660}]

LineArgs ==
    [x0 : EdgeXS, y0 : YS, x1 : EdgeXS, y1 : YS, color : Colors]
      \cup {[x0 |-> -1, y0 |-> 5, x1 |-> 10, y1 |-> 5, color |-> 4660]}

FastArgs == [x : EdgeXS, y : YS, len : XS, color : Colors]

CopyArgs ==
    [x : Near(0) \cup {TFTWIDTH - 1, MaxInt16},
     w : {MinInt16, 0, 1, TFTHEIGHT, TFTWIDTH, TFTWIDTH + 1, MaxInt16},
     dx : Near(0) \cup {-8, TFTWIDTH - 1, MinInt16},
     y : {-1, 0, 1},
     h : {MinInt16, 0, 1, TFTHEIGHT, TFTWIDTH},
     dy : {-8, 0, 1},
     invert : BOOLEAN]

NoArgs == [none |-> TRUE]

Idle == [op |-> "none", a |-> NoArgs, trace |-> <<>>, delay |-> <<>>]

Done(op, a, res) == [op |-> op, a |-> a, trace |-> res.trace, delay |-> res.delay]

Emit(op, a, t) == [op |-> op, a |-> a, trace |-> t, delay |-> <<>>]

dev == <<rotation, _width, _height, lastRot>>

(* ---------------------------------------------------------------------- *)
(* Actions: one per public call.  A call is made on an empty recorder;     *)
(* ClearTrace empties the recorder between two calls.                      *)
(* ---------------------------------------------------------------------- *)
Init ==
    /\ rotation = 0
    /\ _width = TFTWIDTH
    /\ _height = TFTHEIGHT
    /\ lastRot = 0
    /\ last = Idle

begin ==
    /\ last.op = "none"
    /\ _width' = TFTWIDTH
    /\ _height' = TFTHEIGHT
    /\ last' = Emit("begin", NoArgs, beginTrace)
    /\ UNCHANGED <<rotation, lastRot>>

setRotation ==
    /\ last.op = "none"
    /\ \E r \in 0..MaxRotArg :
         /\ rotation' = r % 4
         /\ lastRot' = r % 4
         /\ _width' = IF (r % 4) % 2 = 1 THEN TFTHEIGHT ELSE TFTWIDTH
         /\ _height' = IF (r % 4) % 2 = 1 THEN TFTWIDTH ELSE TFTHEIGHT
         /\ last' = Emit("setRotation", [r |-> r], setRotationTrace(r % 4))

enableDisplay ==
    /\ last.op = "none"
    /\ \E enable \in BOOLEAN :
         last' = Emit("enableDisplay", [enable |-> enable],
                      << Cmd(IF enable THEN "DISPLAYON" ELSE "DISPLAYOFF", <<>>) >>)
    /\ UNCHANGED dev

invertDisplay ==
    /\ last.op = "none"
    /\ \E i \in BOOLEAN :
         last' = Emit("invertDisplay", [i |-> i],
                      << Cmd(IF i THEN "INVERTDISPLAY" ELSE "NORMALDISPLAY", <<>>) >>)
    /\ UNCHANGED dev

fillRect ==
    /\ last.op = "none"
    /\ \E a \in FillArgs :
         last' = Done("fillRect", a, writeFillRect(a.x, a.y, a.w, a.h, a.color))
    /\ UNCHANGED dev

fillScreen ==
    /\ last.op = "none"
    /\ \E c \in Colors :
         last' = Done("fillScreen", [color |-> c],
                      writeFillRect(0, 0, _width, _height, c))
    /\ UNCHANGED dev

drawLine ==
    /\ last.op = "none"
    /\ \E a \in LineArgs :
         last' = Emit("drawLine", a, writeLine(a.x0, a.y0, a.x1, a.y1, a.color))
    /\ UNCHANGED dev

drawFastHLine ==
    /\ last.op = "none"
    /\ \E a \in FastArgs :
         last' = Emit("drawFastHLine", a, writeFastHLine(a.x, a.y, a.len, a.color))
    /\ UNCHANGED dev

drawFastVLine ==
    /\ last.op = "none"
    /\ \E a \in FastArgs :
         last' = Emit("drawFastVLine", a, writeFastVLine(a.x, a.y, a.len, a.color))
    /\ UNCHANGED dev

drawRect ==
    /\ last.op = "none"
    /\ \E a \in RectArgs :
         last' = Emit("drawRect", a, drawRectTrace(a.x, a.y, a.w, a.h, a.color))
    /\ UNCHANGED dev

copyBits ==
    /\ last.op = "none"
    /\ \E a \in CopyArgs :
         last' = Done("copyBits", a,
                      copyBitsResult(a.x, a.y, a.w, a.h, a.dx, a.dy, a.invert))
    /\ UNCHANGED dev

ClearTrace ==
    /\ last.op # "none"
    /\ last' = Idle
    /\ UNCHANGED dev

Next ==
    \/ begin
    \/ setRotation
    \/ enableDisplay
    \/ invertDisplay
    \/ fillRect
    \/ fillScreen
    \/ drawLine
    \/ drawFastHLine
    \/ drawFastVLine
    \/ drawRect
    \/ copyBits
    \/ ClearTrace

Spec == Init /\ [][Next]_vars

TypeOK ==
    /\ rotation \in 0..3
    /\ lastRot \in 0..3
    /\ _width \in {TFTWIDTH, TFTHEIGHT}
    /\ _height \in {TFTWIDTH, TFTHEIGHT}

(* ====================================================================== *)
(* Properties                                                              *)
(* ====================================================================== *)
Fits16(v) == v \in MinInt16..MaxInt16

\* the drawing command of a trace: the last one (a FILL mode setting may precede it)
DrawCmd(t) == t[Len(t)]

\* the logical point whose two bytes start at operand i of command c
Pt(c, i) ==
    IF rotation % 2 = 1 THEN <<c.args[i + 1], c.args[i]>>
                        ELSE <<c.args[i], c.args[i + 1]>>

OnScreen(x, y) == x >= 0 /\ x < _width /\ y >= 0 /\ y < _height

\* the three operand bytes of a 5-6-5 color
ColorBytes(color) ==
    LET r5 == color \div 2048
        g6 == (color \div 32) % 64
        b5 == color % 32
    IN <<2 * r5, g6, 2 * b5>>

\* the intersection of the requested rectangle with the logical screen,
\* far edges exclusive
Inter(a) ==
    [x0 |-> Max(a.x, 0), x1 |-> Min(a.x + a.w, _width),
     y0 |-> Max(a.y, 0), y1 |-> Min(a.y + a.h, _height)]

InterEmpty(i) == i.x1 <= i.x0 \/ i.y1 <= i.y0

(* C1: a fillRect whose sums x+w and y+h fit in 16 bits emits nothing      *)
(* exactly when the intersection of the rectangle with the logical screen  *)
(* is empty; otherwise it emits one drawing command whose two corners are  *)
(* the top-left and bottom-right pixels of that intersection.              *)
C1_FillRectEmitsIntersection ==
    (last.op = "fillRect" /\ Fits16(last.a.x + last.a.w)
                          /\ Fits16(last.a.y + last.a.h)) =>
      LET i == Inter(last.a)
          t == last.trace
      IN IF InterEmpty(i)
         THEN t = <<>>
         ELSE /\ t # <<>>
              /\ Cardinality({k \in 1..Len(t) : t[k].cmd # "FILL"}) = 1
              /\ DrawCmd(t).cmd \in {"CLEAR", "DRAWLINE", "DRAWRECT"}
              /\ Pt(DrawCmd(t), 1) = <<i.x0, i.y0>>
              /\ Pt(DrawCmd(t), 3) = <<i.x1 - 1, i.y1 - 1>>

C1_Witness ==
    /\ last.op = "fillRect"
    /\ rotation = 1
    /\ last.a.x < 0
    /\ last.a.y < 0
    /\ Fits16(last.a.x + last.a.w) /\ last.a.x + last.a.w > _width
    /\ Fits16(last.a.y + last.a.h) /\ last.a.y + last.a.h > 0
    /\ last.trace # <<>>

(* C2: a fillRect of nonzero color whose clipped rectangle is one pixel    *)
(* tall or one pixel wide is emitted as a DRAWLINE command and not as a    *)
(* FILL / DRAWRECT command.                                                *)
C2_ThinFillUsesDrawLine ==
    (/\ last.op = "fillRect"
     /\ last.a.color # 0
     /\ Fits16(last.a.x + last.a.w) /\ Fits16(last.a.y + last.a.h)
     /\ ~InterEmpty(Inter(last.a))
     /\ \/ Inter(last.a).x1 - Inter(last.a).x0 = 1
        \/ Inter(last.a).y1 - Inter(last.a).y0 = 1) =>
      /\ \E k \in 1..Len(last.trace) : last.trace[k].cmd = "DRAWLINE"
      /\ \A k \in 1..Len(last.trace) : last.trace[k].cmd \notin {"FILL", "DRAWRECT"}

(* C3: a fillRect with color 0 whose clipped rectangle (the rectangle left *)
(* by the clipping of writeFillRect) is non-empty emits exactly one CLEAR  *)
(* command with the two corner pairs as its 4 operand bytes, at every      *)
(* rotation and for every size, and no FILL, DRAWRECT or DRAWLINE.         *)
C3_ZeroColorFillIsClear ==
    (/\ last.op = "fillRect"
     /\ last.a.color = 0
     /\ ~FillOffScreen(last.a.x, last.a.y, last.a.w, last.a.h)
     /\ ~FillEmpty(FillClip(last.a.x, last.a.y, last.a.w, last.a.h))) =>
      LET r == FillClip(last.a.x, last.a.y, last.a.w, last.a.h)
          t == last.trace
      IN /\ Len(t) = 1
         /\ t[1].cmd = "CLEAR"
         /\ Len(t[1].args) = 4
         /\ Pt(t[1], 1) = <<r.x, r.y>>
         /\ Pt(t[1], 3) = <<r.x1 - 1, r.y1 - 1>>

C3_Witness ==
    /\ last.op = "fillRect"
    /\ last.a.color = 0
    /\ rotation = 3
    /\ last.a.w = 1
    /\ last.a.h > 1
    /\ last.trace # <<>>

(* C4: drawLine emits nothing when either endpoint is outside the logical  *)
(* screen; when both are inside it emits exactly one DRAWLINE command with *)
(* the two endpoint pairs unmodified and one 3-byte color.  The device     *)
(* state is unchanged in both cases.                                       *)
C4_DrawLineAllOrNothing ==
    [][last'.op = "drawLine" =>
         /\ UNCHANGED <<rotation, _width, _height>>
         /\ LET a == last'.a
                t == last'.trace
            IN IF OnScreen(a.x0, a.y0) /\ OnScreen(a.x1, a.y1)
               THEN /\ Len(t) = 1
                    /\ t[1].cmd = "DRAWLINE"
                    /\ Len(t[1].args) = 7
                    /\ Pt(t[1], 1) = <<a.x0, a.y0>>
                    /\ Pt(t[1], 3) = <<a.x1, a.y1>>
                    /\ SubSeq(t[1].args, 5, 7) = ColorBytes(a.color)
               ELSE t = <<>>]_vars

C4_Witness ==
    /\ last.op = "drawLine"
    /\ rotation = 1
    /\ last.a.x0 = _width - 1
    /\ last.a.y1 = _height - 1
    /\ last.a.x1 = 0
    /\ last.trace # <<>>

C4_WitnessRejected ==
    /\ last.op = "drawLine"
    /\ OnScreen(last.a.x0, last.a.y0)
    /\ last.a.x1 = _width
    /\ last.trace = <<>>

(* C5: copyBits either emits nothing or emits a source rectangle and a     *)
(* destination origin such that the source rectangle and the same-sized    *)
(* destination rectangle both lie inside the logical screen, no coordinate *)
(* is negative, and the displacement equals the requested (dx-x, dy-y).    *)
C5_CopyBitsStaysOnScreen ==
    (last.op = "copyBits" /\ last.trace # <<>>) =>
      LET c  == DrawCmd(last.trace)
          s0 == Pt(c, 1)
          s1 == Pt(c, 3)
          d  == Pt(c, 5)
      IN /\ c.cmd = "COPY"
         /\ OnScreen(s0[1], s0[2]) /\ OnScreen(s1[1], s1[2])
         /\ s0[1] <= s1[1] /\ s0[2] <= s1[2]
         /\ OnScreen(d[1], d[2])
         /\ OnScreen(d[1] + (s1[1] - s0[1]), d[2] + (s1[2] - s0[2]))
         /\ d[1] - s0[1] = last.a.dx - last.a.x
         /\ d[2] - s0[2] = last.a.dy - last.a.y

\* the same, for calls whose arguments are all too small for an int16_t
\* update in the clip to wrap
NearScreen(v) == v >= -(2 * TFTWIDTH) /\ v <= 2 * TFTWIDTH

C5_ForArgumentsNearScreen ==
    (/\ last.op = "copyBits"
     /\ NearScreen(last.a.x) /\ NearScreen(last.a.dx) /\ NearScreen(last.a.w)
     /\ NearScreen(last.a.y) /\ NearScreen(last.a.dy) /\ NearScreen(last.a.h))
      => C5_CopyBitsStaysOnScreen

\* copyBits(0,0,96,64,0,-8,false) on 96x64: source rows 8..63, destination row 0
C5_ScrollUpExample ==
    (/\ last.op = "copyBits"
     /\ _width = TFTWIDTH /\ _height = TFTHEIGHT
     /\ last.a = [x |-> 0, y |-> 0, w |-> TFTWIDTH, h |-> TFTHEIGHT,
                  dx |-> 0, dy |-> -8, invert |-> FALSE]) =>
      /\ last.trace # <<>>
      /\ Pt(DrawCmd(last.trace), 1) = <<0, 8>>
      /\ Pt(DrawCmd(last.trace), 3) = <<95, 63>>
      /\ Pt(DrawCmd(last.trace), 5) = <<0, 0>>

(* C6: in every reachable state the logical (width, height) is the         *)
(* physical (96, 64) when the stored rotation is even and the swapped      *)
(* (64, 96) when it is odd.                                                *)
C6_DimsFollowRotation ==
    <<_width, _height>> = IF rotation % 2 = 0 THEN <<TFTWIDTH, TFTHEIGHT>>
                                              ELSE <<TFTHEIGHT, TFTWIDTH>>

\* the logical points a primitive hands to spiWriteXY, in order
PointsOf(l) ==
    LET a == l.a
    IN CASE l.op = "drawLine" -> << <<a.x0, a.y0>>, <<a.x1, a.y1>> >>
         [] l.op = "fillRect" ->
              << <<Max(a.x, 0), Max(a.y, 0)>>,
                 <<Min(Int16(a.x + a.w), _width) - 1,
                   Min(Int16(a.y + a.h), _height) - 1>> >>
         [] l.op = "drawRect" ->
              << <<a.x, a.y>>,
                 <<Min(Int16(a.x + a.w), _width) - 1,
                   Min(Int16(a.y + a.h), _height) - 1>> >>
         [] l.op = "copyBits" ->
              LET cx == CopyClipAxis(a.x, a.dx, a.w, _width)
                  cy == CopyClipAxis(a.y, a.dy, a.h, _height)
              IN << <<cx.p, cy.p>>,
                    <<cx.p + cx.len - 1, cy.p + cy.len - 1>>,
                    <<cx.d, cy.d>> >>

(* C7: every coordinate pair in the trace of fillRect, drawLine, drawRect  *)
(* and copyBits is emitted as (y then x) when the rotation set by the      *)
(* latest setRotation is 1 or 3, and as (x then y) when it is 0 or 2.      *)
C7_AxisSwapFollowsRotation ==
    (last.op \in {"fillRect", "drawLine", "drawRect", "copyBits"}
       /\ last.trace # <<>>) =>
      LET c   == DrawCmd(last.trace)
          pts == PointsOf(last)
      IN \A k \in 1..Len(pts) :
           <<c.args[2 * k - 1], c.args[2 * k]>> =
               IF lastRot \in {1, 3}
               THEN <<Byte(pts[k][2]), Byte(pts[k][1])>>
               ELSE <<Byte(pts[k][1]), Byte(pts[k][2])>>

C7_Witness ==
    /\ last.op = "copyBits"
    /\ last.trace # <<>>
    /\ lastRot = 3
    /\ \A k \in 1..3 : PointsOf(last)[k][1] # PointsOf(last)[k][2]

C7_WitnessAfterBegin ==
    /\ last.op = "drawRect"
    /\ last.trace # <<>>
    /\ lastRot = 1
    /\ _width = TFTWIDTH
    /\ last.a.x # last.a.y

(* C8: after every fillRect that emits a command the post-command delay is *)
(* (number of pixels of the clipped rectangle actually written) >> 2       *)
(* microseconds, also for rectangles that extend past the screen edge.     *)
C8_FillDelayIsClippedArea ==
    (/\ last.op = "fillRect"
     /\ Fits16(last.a.x + last.a.w) /\ Fits16(last.a.y + last.a.h)
     /\ last.trace # <<>>) =>
      LET i == Inter(last.a)
      IN last.delay = << ((i.x1 - i.x0) * (i.y1 - i.y0)) \div 4 >>

\* fillRect(0,0,96,64,color) on 96x64 waits 6144 >> 2 = 1536 microseconds
C8_FullPanelExample ==
    (/\ last.op = "fillRect"
     /\ _width = TFTWIDTH /\ _height = TFTHEIGHT
     /\ last.a.x = 0 /\ last.a.y = 0
     /\ last.a.w = TFTWIDTH /\ last.a.h = TFTHEIGHT) =>
      last.delay = <<1536>>

(* C9: drawFastHLine(x,y,w,color) with w >= 1 whose w pixels (x..x+w-1, y) *)
(* are all on screen emits one DRAWLINE command from (x,y) to (x+w-1,y);   *)
(* drawFastVLine(x,y,h,color) likewise to (x,y+h-1).                       *)
C9_FastLineCoversLenPixels ==
    (/\ last.op \in {"drawFastHLine", "drawFastVLine"}
     /\ last.a.len >= 1
     /\ OnScreen(last.a.x, last.a.y)
     /\ IF last.op = "drawFastHLine"
        THEN last.a.x + last.a.len - 1 < _width
        ELSE last.a.y + last.a.len - 1 < _height) =>
      LET a == last.a
          t == last.trace
      IN /\ Len(t) = 1
         /\ t[1].cmd = "DRAWLINE"
         /\ Pt(t[1], 1) = <<a.x, a.y>>
         /\ Pt(t[1], 3) = IF last.op = "drawFastHLine"
                          THEN <<a.x + a.len - 1, a.y>>
                          ELSE <<a.x, a.y + a.len - 1>>

(* C10: the trace of drawRect(x,y,w,h,color) is empty exactly when w <= 0, *)
(* h <= 0 or the origin is off-screen; otherwise it is FILL 0x00, DRAWRECT *)
(* with start corner (x,y), end corner (min(x+w,width)-1,                  *)
(* min(y+h,height)-1) and the color triple twice, every coordinate inside  *)
(* the logical screen.                                                     *)
C10_DrawRectTrace ==
    last.op = "drawRect" =>
      LET a == last.a
          t == last.trace
      IN IF a.w <= 0 \/ a.h <= 0 \/ ~OnScreen(a.x, a.y)
         THEN t = <<>>
         ELSE /\ Len(t) = 2
              /\ t[1] = Cmd("FILL", <<0>>)
              /\ t[2].cmd = "DRAWRECT"
              /\ Len(t[2].args) = 10
              /\ Pt(t[2], 1) = <<a.x, a.y>>
              /\ Pt(t[2], 3) = <<Min(a.x + a.w, _width) - 1,
                                 Min(a.y + a.h, _height) - 1>>
              /\ OnScreen(Pt(t[2], 3)[1], Pt(t[2], 3)[2])
              /\ SubSeq(t[2].args, 5, 7) = ColorBytes(a.color)
              /\ SubSeq(t[2].args, 8, 10) = ColorBytes(a.color)

\* the same, for calls whose sums x+w and y+h fit in 16 bits
C10_ForSumsThatFit ==
    (last.op = "drawRect" /\ Fits16(last.a.x + last.a.w)
                          /\ Fits16(last.a.y + last.a.h))
      => C10_DrawRectTrace

\* a rectangle with a negative origin that overlaps the screen: drawRect
\* draws nothing (fillRect with the same arguments draws the intersection)
C10_NegativeOriginExample ==
    /\ last.op = "drawRect"
    /\ last.a.x < 0
    /\ Fits16(last.a.x + last.a.w) /\ last.a.x + last.a.w > 0
    /\ last.a.y >= 0 /\ last.a.y < _height /\ last.a.h > 0
    /\ last.trace = <<>>
====
